---- MODULE Spec2Model ----
(***************************************************************************)
(* Seat reservation core of the movie ticket booking system: the socket    *)
(* handlers that lock and release seats, the periodic cleanup of expired   *)
(* locks, booking creation and the Stripe payment webhook.                 *)
(*                                                                         *)
(* Time is counted in minutes.  Every store call (one supabase query) is   *)
(* atomic; the select-seats handler, booking creation and the cleanup      *)
(* timer are sequences of store calls that interleave with each other.     *)
(* A handler finishes within the minute in which it started.               *)
(***************************************************************************)
EXTENDS Integers, Sequences, FiniteSets, TLC

Users == {"U", "V"}
Seats == {"A1", "A2"}
Showtimes == {"S"}

\* 10 * 60 * 1000 ms, in minutes
LockTTL == 10
\* setInterval(..., 60000), in minutes
SweepInterval == 1

\* Clients act during the minutes 0..EarlyTime and again from minute LockTTL
\* on, when the first lock can expire; the model observes those instants.
EarlyTime == 0
MaxTime == 11
\* handlers (select-seats, create booking, cleanup) that may be in flight at once
MaxInFlight == 2
\* the same, where bookings and payments are followed as well
MaxInFlightBooking == 1
MaxBookings == 2
MaxIntents == 2
MaxFaults == 1
\* bookings made where their payments or the booking pages are followed
MaxPaidBookings == 1
\* the last minute where the cleanup is followed past a failed firing
MaxRetryTime == 12

BookingIds == 1..MaxBookings

VARIABLES
    now,            \* the clock (Date.now()), in minutes
    lastSweep,      \* when the cleanup timer last fired
    seat_locks,     \* table seat_locks
    bookings,       \* table bookings
    booking_seats,  \* table booking_seats
    payments,       \* table payments
    intents,        \* the payment intents created at the gateway
    nextBooking,    \* the id the next bookings row gets
    sel,            \* per user: the select-seats handler in flight
    cr,             \* per user: the create-booking request in flight
    sweep,          \* the cleanup callback in flight
    faults,         \* store calls that have failed so far
    out,            \* what the last step emitted or answered
    rooms,          \* per connection: the showtime rooms its socket is in
    sm,             \* per client: the seat-map request in flight
    view,           \* per client: the seats of the booking page
    applied         \* per client: the seats it has applied seats-booked to

vars == <<now, lastSweep, seat_locks, bookings, booking_seats, payments,
          intents, nextBooking, sel, cr, sweep, faults, out, rooms, sm, view,
          applied>>

clock == <<now, lastSweep>>
client == <<rooms, sm, view, applied>>
bookingTables == <<bookings, booking_seats, payments, intents, nextBooking>>

(***************************************************************************)
(* Tables                                                                  *)
(***************************************************************************)
LockRow(s, t, u, until) ==
    [seat_id |-> s, showtime_id |-> t, user_id |-> u, locked_until |-> until]

\* the key an upsert into seat_locks conflicts on
LockKey(l) == <<l.seat_id, l.showtime_id>>

BookingRow(id, u, t, st) ==
    [id |-> id, user_id |-> u, showtime_id |-> t, status |-> st]

BookingSeatRow(b, s, t) ==
    [booking_id |-> b, seat_id |-> s, showtime_id |-> t]

PaymentRow(pi, b, st, date) ==
    [stripe_payment_intent_id |-> pi, booking_id |-> b,
     payment_status |-> st, payment_date |-> date]

NoDate == -1

Range(f) == {f[i] : i \in DOMAIN f}

\* .in('bookings.status', ['confirmed', 'paid'])
BookedStatus == {"confirmed", "paid"}

\* booking_seats joined with bookings!inner, filtered on the booking status
BookedSeats(t, ids) ==
    {bs \in booking_seats :
        /\ bs.showtime_id = t
        /\ bs.seat_id \in ids
        /\ \E b \in bookings : b.id = bs.booking_id /\ b.status \in BookedStatus}

(***************************************************************************)
(* Outputs: socket events and HTTP answers                                 *)
(***************************************************************************)
Event(type, t, ids, u, until, b, except) ==
    [type |-> type, showtimeId |-> t, seatIds |-> ids, lockedBy |-> u,
     lockedUntil |-> until, bookingId |-> b, except |-> except]

SeatsLockedToAll(t, ids, u, until) == Event("seats-locked", t, ids, u, until, 0, "-")

\* socket.to(room).emit: to the room of the showtime, except the sender
SeatsLocked(t, ids, u, until) == Event("seats-locked", t, ids, u, until, 0, u)
SeatsReleased(t, ids, except) == Event("seats-released", t, ids, "-", 0, 0, except)
\* io.to(room).emit: to the whole room
SeatsBooked(t, ids, b) == Event("seats-booked", t, ids, "-", 0, b, "-")

\* an HTTP answer: the route, the status code, the error text and the
\* booking it is about
Response(route, code, error, b) ==
    [type |-> route, status |-> code, error |-> error, bookingId |-> b]

SmIdle == [pc |-> "idle", showtimeId |-> "-", bookedSeats |-> {}]

CrIdle == [pc |-> "idle", showtimeId |-> "-", seatIds |-> {}, bookingId |-> 0]

SweepIdle == [pc |-> "idle", now |-> 0, expiredLocks |-> {}]

InFlight ==
    Cardinality({u \in Users : sel[u].pc # "idle"})
    + Cardinality({u \in Users : cr[u].pc # "idle"})
    + Cardinality({u \in Users : sm[u].pc # "idle"})
    + (IF sweep.pc # "idle" THEN 1 ELSE 0)

(***************************************************************************)
(* select-seats                                                            *)
(*                                                                         *)
(* The handler never looks at the result of a store call, and a store call *)
(* reports a failure in its result instead of throwing: every handler runs *)
(* to its emit.                                                            *)
(***************************************************************************)
SelIdle == [pc |-> "idle", showtimeId |-> "-", seatIds |-> <<>>, i |-> 0,
            action |-> "-", lockExpiry |-> 0, bookingId |-> 0,
            disconnected |-> FALSE]

SeatLists ==
    {<<s>> : s \in Seats} \cup
    {<<s1, s2>> : <<s1, s2>> \in {p \in Seats \X Seats : p[1] # p[2]}}

LockExpiryFixed(t0) == LockTTL

\* new Date(Date.now() + 10 * 60 * 1000)
LockExpiry(t0) == t0 + LockTTL

\* .upsert({seat_id, showtime_id, user_id, locked_until})
UpsertLock(locks, row) ==
    {l \in locks : LockKey(l) # LockKey(row)} \cup {row}

DeleteSeatLock(locks, s, u) == {l \in locks : l.seat_id # s}

\* .delete().eq('seat_id', seatId).eq('user_id', socket.userId)
DeleteUserSeatLock(locks, s, u) ==
    {l \in locks : ~(l.seat_id = s /\ l.user_id = u)}

\* one iteration of the for loop: the store call on seatIds[i]
SelectStore(locks, u, t, s, a, until) ==
    IF a = "select"
    THEN UpsertLock(locks, LockRow(s, t, u, until))
    ELSE DeleteUserSeatLock(locks, s, u)

SelAfter(r) ==
    IF r.i = Len(r.seatIds) THEN [r EXCEPT !.pc = "emit"]
    ELSE [r EXCEPT !.i = r.i + 1]

\* a store call that fails changes no row; the handler is not told
SelectStoreResult(locks, u, t, s, a, until, fail) ==
    IF fail THEN locks ELSE SelectStore(locks, u, t, s, a, until)

\* the handler up to its first await: the first store call is issued, and
\* fails if fail
SelectSeatsCall(u, t, ids, a, fail) ==
    LET r == [pc |-> "loop", showtimeId |-> t, seatIds |-> ids, i |-> 1,
              action |-> a,
              lockExpiry |-> IF a = "select" THEN LockExpiry(now) ELSE 0,
              bookingId |-> 0, disconnected |-> FALSE]
    IN  /\ sel[u].pc = "idle"
        /\ fail => faults < MaxFaults
        /\ faults' = (IF fail THEN faults + 1 ELSE faults)
        /\ seat_locks' = SelectStoreResult(seat_locks, u, t, ids[1], a,
                                           r.lockExpiry, fail)
        /\ sel' = [sel EXCEPT ![u] = SelAfter(r)]
        /\ out' = <<>>
        /\ UNCHANGED <<clock, client, bookingTables, cr, sweep>>

SelectLoopCall(u, fail) ==
    LET r == sel[u]
    IN  /\ r.pc = "loop"
        /\ fail => faults < MaxFaults
        /\ faults' = (IF fail THEN faults + 1 ELSE faults)
        /\ seat_locks' = SelectStoreResult(seat_locks, u, r.showtimeId,
                                           r.seatIds[r.i], r.action,
                                           r.lockExpiry, fail)
        /\ sel' = [sel EXCEPT ![u] = SelAfter(r)]
        /\ out' = <<>>
        /\ UNCHANGED <<clock, client, bookingTables, cr, sweep>>

\* the same with the store answering
SelectSeats(u, t, ids, a) == SelectSeatsCall(u, t, ids, a, FALSE)

SelectLoop(u) == SelectLoopCall(u, FALSE)

\* the emit that ends a select-seats or confirm-booking handler
SelectEmit(u) ==
    LET r == sel[u]
    IN  /\ r.pc = "emit"
        /\ out' = IF r.action = "select"
                  THEN <<SeatsLocked(r.showtimeId, Range(r.seatIds), u, r.lockExpiry)>>
                  ELSE IF r.action = "deselect"
                  THEN <<SeatsReleased(r.showtimeId, Range(r.seatIds), u)>>
                  ELSE <<SeatsBooked(r.showtimeId, Range(r.seatIds), r.bookingId)>>
        /\ sel' = [sel EXCEPT ![u] = SelIdle]
        /\ UNCHANGED <<clock, client, seat_locks, bookingTables, cr, sweep, faults>>

(***************************************************************************)
(* confirm-booking                                                         *)
(*                                                                         *)
(* The handler deletes the sender's locks on the seats it is given, seat   *)
(* by seat with the query of the deselect branch, and then announces       *)
(* seats-booked to the whole room; it reads no table.                      *)
(***************************************************************************)
\* the handler up to its first await
ConfirmBooking(u, t, ids, b) ==
    LET r == [pc |-> "loop", showtimeId |-> t, seatIds |-> ids, i |-> 1,
              action |-> "confirm", lockExpiry |-> 0, bookingId |-> b,
              disconnected |-> FALSE]
    IN  /\ sel[u].pc = "idle"
        /\ seat_locks' = SelectStore(seat_locks, u, t, ids[1], "confirm", 0)
        /\ sel' = [sel EXCEPT ![u] = SelAfter(r)]
        /\ out' = <<>>
        /\ UNCHANGED <<clock, client, bookingTables, cr, sweep, faults>>

(***************************************************************************)
(* Rooms: join-showtime, leave-showtime and who an emit reaches            *)
(***************************************************************************)
\* the showtime of another booking page
OtherShowtime == "T"

RoomIds == Showtimes \cup {OtherShowtime}

\* socket.join(`showtime-${showtimeId}`)
JoinShowtime(c, t) ==
    /\ rooms' = [rooms EXCEPT ![c] = @ \cup {t}]
    /\ out' = <<>>
    /\ UNCHANGED <<clock, sm, view, applied, seat_locks, bookingTables, sel,
                   cr, sweep, faults>>

\* socket.leave(`showtime-${showtimeId}`)
LeaveShowtime(c, t) ==
    /\ rooms' = [rooms EXCEPT ![c] = @ \ {t}]
    /\ out' = <<>>
    /\ UNCHANGED <<clock, sm, view, applied, seat_locks, bookingTables, sel,
                   cr, sweep, faults>>

SeatEvents == {"seats-locked", "seats-released", "seats-booked"}

\* an emit to the room of e.showtimeId reaches the sockets in the room;
\* socket.to(...) leaves out the sender, io.to(...) nobody
ReceiversIn(rms, e) == {c \in Users : e.showtimeId \in rms[c] /\ c # e.except}

Receivers(e) == ReceiversIn(rooms, e)

(***************************************************************************)
(* disconnect                                                              *)
(***************************************************************************)
\* .delete().eq('user_id', socket.userId)
DeleteUserLocks(locks, u) == {l \in locks : l.user_id # u}

\* The handler of the connection's disconnect event; socket.io has taken the
\* socket out of its rooms.  A select-seats handler of the connection that is
\* in flight goes on.
Disconnect(u) ==
    /\ seat_locks' = DeleteUserLocks(seat_locks, u)
    /\ rooms' = [rooms EXCEPT ![u] = {}]
    /\ sel' = [sel EXCEPT ![u] = IF sel[u].pc = "idle" THEN sel[u]
                                  ELSE [sel[u] EXCEPT !.disconnected = TRUE]]
    /\ out' = <<>>
    /\ UNCHANGED <<clock, sm, view, applied, bookingTables, cr, sweep, faults>>

(***************************************************************************)
(* The clock and the cleanup of expired locks                              *)
(***************************************************************************)
ExpiredLocksLate(locks, t0) == {l \in locks : l.locked_until + SweepInterval < t0}

\* .lt('locked_until', now)
ExpiredLocks(locks, t0) == {l \in locks : l.locked_until < t0}

\* the instants up to minute m at which the model looks at the system
InstantsTo(m) == {t \in 0..m : t <= EarlyTime \/ t >= LockTTL}

Instants == InstantsTo(MaxTime)

NextInstantIn(m, t0) ==
    CHOOSE t \in InstantsTo(m) : t > t0 /\ \A x \in InstantsTo(m) : x > t0 => t <= x

NextInstant(t0) == NextInstantIn(MaxTime, t0)

\* The timer fires every SweepInterval; each firing runs before the clock
\* moves on.  The firings at the minutes between two instants find nothing:
\* no lock expires before minute LockTTL.  The clock stops at minute m.
TickTo(m) ==
    /\ now < m
    /\ lastSweep = now
    /\ InFlight = 0
    /\ now' = NextInstantIn(m, now)
    /\ out' = <<>>
    /\ UNCHANGED <<lastSweep, client, seat_locks, bookingTables, sel, cr, sweep, faults>>

Tick == TickTo(MaxTime)

\* the select of the cleanup; if it fails, data is null and the callback ends
SweepSelectCall(fail) ==
    LET expired == ExpiredLocks(seat_locks, now)
    IN  /\ sweep.pc = "idle"
        /\ now >= lastSweep + SweepInterval
        /\ fail => faults < MaxFaults
        /\ faults' = (IF fail THEN faults + 1 ELSE faults)
        /\ lastSweep' = now
        /\ sweep' = IF fail \/ expired = {}
                    THEN SweepIdle
                    ELSE [pc |-> "delete", now |-> now,
                          expiredLocks |-> {<<l.showtime_id, l.seat_id>> : l \in expired}]
        /\ out' = <<>>
        /\ UNCHANGED <<now, client, seat_locks, bookingTables, sel, cr>>

SweepSelect == SweepSelectCall(FALSE)

SweepDeleteNothing(locks, t0, fail) == locks

\* .delete().lt('locked_until', now); a delete that fails removes no row
SweepDeleteResult(locks, t0, fail) ==
    IF fail THEN locks ELSE locks \ ExpiredLocks(locks, t0)

\* the delete of the cleanup; its result is not looked at
SweepDeleteCall(fail) ==
    /\ sweep.pc = "delete"
    /\ fail => faults < MaxFaults
    /\ faults' = (IF fail THEN faults + 1 ELSE faults)
    /\ seat_locks' = SweepDeleteResult(seat_locks, sweep.now, fail)
    /\ sweep' = [sweep EXCEPT !.pc = "emit"]
    /\ out' = <<>>
    /\ UNCHANGED <<clock, client, bookingTables, sel, cr>>

SweepDelete == SweepDeleteCall(FALSE)

ReleasedTogether(expired) ==
    {SeatsReleased(t, {p[2] : p \in expired}, "-") : t \in {p[1] : p \in expired}}

\* one seats-released per showtime that had an expired lock
ReleasedByShowtime(expired) ==
    {SeatsReleased(t, {p[2] : p \in {q \in expired : q[1] = t}}, "-") :
        t \in {p[1] : p \in expired}}

SweepEmit ==
    /\ sweep.pc = "emit"
    /\ \E order \in [1..Cardinality(ReleasedByShowtime(sweep.expiredLocks))
                        -> ReleasedByShowtime(sweep.expiredLocks)] :
          /\ Range(order) = ReleasedByShowtime(sweep.expiredLocks)
          /\ out' = order
    /\ sweep' = SweepIdle
    /\ UNCHANGED <<clock, client, seat_locks, bookingTables, sel, cr, faults>>

(***************************************************************************)
(* POST /bookings                                                          *)
(***************************************************************************)
SeatSets == (SUBSET Seats) \ {{}}

\* a showtime id with no row in showtimes
UnknownShowtime == "S?"

\* a store call may fail while the budget of failures lasts
MayFail(fail) == fail => faults < MaxFaults

Failed(fail) == IF fail THEN faults + 1 ELSE faults

\* seat_locks .eq('showtime_id').eq('user_id').in('seat_id', seatIds)
UserSeatLocks(t, u, ids) ==
    {l \in seat_locks : l.showtime_id = t /\ l.user_id = u /\ l.seat_id \in ids}

\* seatLocks.length !== seatIds.length
LocksMissing(t, u, ids) ==
    Cardinality(UserSeatLocks(t, u, ids)) # Cardinality(ids)

AlreadyBookedConfirmedOnly(t, ids) ==
    \E bs \in booking_seats :
        /\ bs.showtime_id = t
        /\ bs.seat_id \in ids
        /\ \E b \in bookings : b.id = bs.booking_id /\ b.status = "confirmed"

\* bookedSeats.length > 0
AlreadyBooked(t, ids) == BookedSeats(t, ids) # {}

NotLockedError == "Some seats are not locked by you or unavailable"

AlreadyBookedError == "Some seats are already booked"

BookingAnswer(code, error, b) == Response("POST /bookings", code, error, b)

\* validation and the showtime lookup
CreateBooking(u, t, ids) ==
    /\ cr[u].pc = "idle"
    /\ nextBooking + Cardinality({v \in Users : cr[v].pc \in {"locks", "booked", "insert"}})
          <= MaxBookings
    /\ IF t \notin Showtimes
       THEN /\ out' = <<BookingAnswer(404, "Showtime not found", 0)>>
            /\ cr' = cr
       ELSE /\ out' = <<>>
            /\ cr' = [cr EXCEPT ![u] = [pc |-> "locks", showtimeId |-> t,
                                         seatIds |-> ids, bookingId |-> 0]]
    /\ UNCHANGED <<clock, client, seat_locks, bookingTables, sel, sweep, faults>>

CreateCheckLocks(u, fail) ==
    LET r == cr[u]
    IN  /\ r.pc = "locks"
        /\ MayFail(fail)
        /\ faults' = Failed(fail)
        /\ IF fail
           THEN out' = <<BookingAnswer(500, "-", 0)>> /\ cr' = [cr EXCEPT ![u] = CrIdle]
           ELSE IF LocksMissing(r.showtimeId, u, r.seatIds)
           THEN out' = <<BookingAnswer(400, NotLockedError, 0)>> /\ cr' = [cr EXCEPT ![u] = CrIdle]
           ELSE out' = <<>> /\ cr' = [cr EXCEPT ![u] = [r EXCEPT !.pc = "booked"]]
        /\ UNCHANGED <<clock, client, seat_locks, bookingTables, sel, sweep>>

CreateCheckBooked(u, fail) ==
    LET r == cr[u]
    IN  /\ r.pc = "booked"
        /\ MayFail(fail)
        /\ faults' = Failed(fail)
        /\ IF fail
           THEN out' = <<BookingAnswer(500, "-", 0)>> /\ cr' = [cr EXCEPT ![u] = CrIdle]
           ELSE IF AlreadyBooked(r.showtimeId, r.seatIds)
           THEN out' = <<BookingAnswer(400, AlreadyBookedError, 0)>> /\ cr' = [cr EXCEPT ![u] = CrIdle]
           ELSE out' = <<>> /\ cr' = [cr EXCEPT ![u] = [r EXCEPT !.pc = "insert"]]
        /\ UNCHANGED <<clock, client, seat_locks, bookingTables, sel, sweep>>

CreateInsertBooking(u, fail) ==
    LET r == cr[u]
    IN  /\ r.pc = "insert"
        /\ MayFail(fail)
        /\ faults' = Failed(fail)
        /\ IF fail
           THEN /\ out' = <<BookingAnswer(500, "-", 0)>>
                /\ cr' = [cr EXCEPT ![u] = CrIdle]
                /\ UNCHANGED <<bookings, nextBooking>>
           ELSE /\ out' = <<>>
                /\ bookings' = bookings \cup
                      {BookingRow(nextBooking, u, r.showtimeId, "pending")}
                /\ nextBooking' = nextBooking + 1
                /\ cr' = [cr EXCEPT ![u] =
                            [r EXCEPT !.pc = "seats", !.bookingId = nextBooking]]
        /\ UNCHANGED <<clock, client, seat_locks, booking_seats, payments, intents,
                       sel, sweep>>

\* seatIds.map(seatId => ({booking_id, seat_id, showtime_id}))
BookingSeatsData(b, t, ids) == {BookingSeatRow(b, s, t) : s \in ids}

\* the insert into booking_seats; on success the booking is read back and
\* answered with 201
CreateInsertSeats(u, fail) ==
    LET r == cr[u]
    IN  /\ r.pc = "seats"
        /\ MayFail(fail)
        /\ faults' = Failed(fail)
        /\ IF fail
           THEN /\ out' = <<>>
                /\ cr' = [cr EXCEPT ![u] = [r EXCEPT !.pc = "rollback"]]
                /\ UNCHANGED booking_seats
           ELSE /\ out' = <<BookingAnswer(201, "-", r.bookingId)>>
                /\ booking_seats' = booking_seats \cup
                      BookingSeatsData(r.bookingId, r.showtimeId, r.seatIds)
                /\ cr' = [cr EXCEPT ![u] = CrIdle]
        /\ UNCHANGED <<clock, client, seat_locks, bookings, payments, intents,
                       nextBooking, sel, sweep>>

\* supabase.from('bookings').delete().eq('id', booking.id); its result is
\* not looked at, then bookingSeatsError is thrown.  The delete may fail with
\* the insert that failed before it: the same outage of the store.
CreateRollback(u, fail) ==
    LET r == cr[u]
    IN  /\ r.pc = "rollback"
        /\ bookings' = IF fail THEN bookings
                       ELSE {b \in bookings : b.id # r.bookingId}
        /\ out' = <<BookingAnswer(500, "-", 0)>>
        /\ cr' = [cr EXCEPT ![u] = CrIdle]
        /\ UNCHANGED <<clock, client, seat_locks, booking_seats, payments, intents,
                       nextBooking, sel, sweep, faults>>

(***************************************************************************)
(* POST /payments/create-intent                                            *)
(***************************************************************************)
IntentRow(pi, b, u) == [id |-> pi, bookingId |-> b, userId |-> u]

\* bookings .eq('id', bookingId).eq('user_id', userId).eq('status', 'pending')
PendingBookingOf(u, b) ==
    {x \in bookings : x.id = b /\ x.user_id = u /\ x.status = "pending"}

IntentAnswer(code, b) == Response("POST /payments/create-intent", code, "-", b)

CreateIntent(u, b, fail) ==
    LET pi == Cardinality(intents) + 1
    IN  /\ Cardinality(intents) < MaxIntents
        /\ MayFail(fail)
        /\ faults' = Failed(fail)
        /\ IF PendingBookingOf(u, b) = {}
           THEN /\ ~fail
                /\ out' = <<IntentAnswer(404, b)>>
                /\ UNCHANGED <<intents, payments>>
           ELSE /\ intents' = intents \cup {IntentRow(pi, b, u)}
                /\ payments' = IF fail THEN payments
                               ELSE payments \cup {PaymentRow(pi, b, "pending", NoDate)}
                /\ out' = <<IntentAnswer(IF fail THEN 500 ELSE 200, b)>>
        /\ UNCHANGED <<clock, client, seat_locks, bookings, booking_seats, nextBooking,
                       sel, cr, sweep>>

(***************************************************************************)
(* POST /payments/webhook                                                  *)
(***************************************************************************)
WebhookAnswer(type, code, b) == Response(type, code, "-", b)

\* payments .update({payment_status, payment_date}).eq('stripe_payment_intent_id', id)
UpdatePayment(rows, pi, st, date) ==
    {IF p.stripe_payment_intent_id = pi
     THEN [p EXCEPT !.payment_status = st, !.payment_date = date]
     ELSE p : p \in rows}

FailAllPayments(rows, pi) == {[p EXCEPT !.payment_status = "failed"] : p \in rows}

\* payments .update({payment_status: 'failed'}).eq('stripe_payment_intent_id', id)
FailPayment(rows, pi) ==
    {IF p.stripe_payment_intent_id = pi
     THEN [p EXCEPT !.payment_status = "failed"]
     ELSE p : p \in rows}

MarkConfirmed(rows, b) ==
    {IF x.id = b THEN [x EXCEPT !.status = "confirmed"] ELSE x : x \in rows}

\* bookings .update({status: 'paid'}).eq('id', bookingId)
MarkPaid(rows, b) ==
    {IF x.id = b THEN [x EXCEPT !.status = "paid"] ELSE x : x \in rows}

\* booking_seats .select('seat_id, showtime_id').eq('booking_id', bookingId)
SeatsOfBooking(b) == {bs \in booking_seats : bs.booking_id = b}

DeleteLocksOnSeats(locks, ids, u) == {l \in locks : l.seat_id \notin ids}

\* seat_locks .delete().in('seat_id', seatIds).eq('user_id', userId)
DeleteLocksOfSeats(locks, ids, u) ==
    {l \in locks : ~(l.seat_id \in ids /\ l.user_id = u)}

\* the store calls of the payment_intent.succeeded case, in order
WebhookSteps == <<"payment", "booking", "seats", "locks">>

WebhookFaults == {"none"} \cup Range(WebhookSteps)

\* step k of the case is reached and does not fail
Done(fail, k) ==
    \/ fail = "none"
    \/ \E j \in 1..Len(WebhookSteps) : WebhookSteps[j] = fail /\ k < j

\* payment_intent.succeeded for intent i; fail names the store call that fails
WebhookSucceeded(i, fail) ==
    LET bs == SeatsOfBooking(i.bookingId)
        seatIds == {x.seat_id : x \in bs}
        \* the seats-booked event goes to the showtime of bookingSeats[0]
        showtimes == {x.showtime_id : x \in bs}
        emits == bs # {} /\ (fail \in {"none", "locks"})
    IN  /\ MayFail(fail # "none")
        \* the delete is issued only if the booking has seats
        /\ fail = "locks" => bs # {}
        /\ faults' = Failed(fail # "none")
        /\ payments' = IF Done(fail, 1)
                       THEN UpdatePayment(payments, i.id, "completed", now)
                       ELSE payments
        /\ bookings' = IF Done(fail, 2) THEN MarkPaid(bookings, i.bookingId)
                       ELSE bookings
        /\ seat_locks' = IF bs # {} /\ Done(fail, 4)
                         THEN DeleteLocksOfSeats(seat_locks, seatIds, i.userId)
                         ELSE seat_locks
        /\ \E t \in (IF emits THEN showtimes ELSE {"-"}) :
              out' = (IF emits THEN <<SeatsBooked(t, seatIds, i.bookingId)>> ELSE <<>>)
                     \o <<WebhookAnswer("payment_intent.succeeded",
                                        IF fail \in {"none", "locks"} THEN 200 ELSE 500,
                                        i.bookingId)>>
        /\ UNCHANGED <<clock, client, booking_seats, intents, nextBooking, sel, cr, sweep>>

\* payment_intent.payment_failed for intent i; the update's result is not
\* looked at
WebhookFailed(i, fail) ==
    /\ MayFail(fail)
    /\ faults' = Failed(fail)
    /\ payments' = IF fail THEN payments ELSE FailPayment(payments, i.id)
    /\ out' = <<WebhookAnswer("payment_intent.payment_failed", 200, i.bookingId)>>
    /\ UNCHANGED <<clock, client, seat_locks, bookings, booking_seats, intents,
                   nextBooking, sel, cr, sweep>>

(***************************************************************************)
(* The rest of the booking life cycle.  No code under src/ sets a booking  *)
(* to confirmed or cancelled; the pages and the queries read both.  The    *)
(* two operations follow the state machine of the specification.           *)
(***************************************************************************)
SetStatus(rows, b, st) ==
    {IF x.id = b THEN [x EXCEPT !.status = st] ELSE x : x \in rows}

\* paid -> confirmed
SettleBooking(b) ==
    /\ \E x \in bookings : x.id = b /\ x.status = "paid"
    /\ bookings' = SetStatus(bookings, b, "confirmed")
    /\ out' = <<>>
    /\ UNCHANGED <<clock, client, seat_locks, booking_seats, payments, intents,
                   nextBooking, sel, cr, sweep, faults>>

\* pending -> cancelled, paid -> cancelled
CancelBooking(b) ==
    /\ \E x \in bookings : x.id = b /\ x.status \in {"pending", "paid"}
    /\ bookings' = SetStatus(bookings, b, "cancelled")
    /\ out' = <<>>
    /\ UNCHANGED <<clock, client, seat_locks, booking_seats, payments, intents,
                   nextBooking, sel, cr, sweep, faults>>

(***************************************************************************)
(* GET /movies/showtimes/:showtimeId/seats                                 *)
(***************************************************************************)
\* lock?.user_id || null
NoHolder == "-"

SeatView(status, by, until) ==
    [status |-> status, lockedBy |-> by, lockedUntil |-> until]

\* booking_seats joined with bookings!inner .eq('showtime_id')
\* .in('bookings.status', ['confirmed', 'paid'])
SeatMapBooked(t) ==
    {bs.seat_id : bs \in
        {x \in booking_seats :
            /\ x.showtime_id = t
            /\ \E b \in bookings :
                  b.id = x.booking_id /\ b.status \in {"confirmed", "paid"}}}

SeatMapLockedOrExpired(t) == {l \in seat_locks : l.showtime_id = t}

\* seat_locks .eq('showtime_id', showtimeId).gt('locked_until', now)
SeatMapLocked(t) ==
    {l \in seat_locks : l.showtime_id = t /\ l.locked_until > now}

\* seats.map(seat => ...): the status of one seat
SeatStatus(s, bookedSeats, lockedSeats) ==
    LET found == {l \in lockedSeats : l.seat_id = s}
        lock == CHOOSE l \in found : TRUE
    IN  SeatView(IF s \in bookedSeats THEN "booked"
                 ELSE IF found # {} THEN "locked" ELSE "available",
                 IF found # {} THEN lock.user_id ELSE NoHolder,
                 IF found # {} THEN lock.locked_until ELSE NoDate)

SeatMapAnswer(code, error, t, seats) ==
    [type |-> "GET /seats", status |-> code, error |-> error, bookingId |-> 0,
     showtimeId |-> t, seats |-> seats]

\* the showtime and its seats are looked up, then the booked seats are read
SeatMapQuery(c, t) ==
    /\ sm[c].pc = "idle"
    /\ IF t \notin Showtimes
       THEN /\ out' = <<SeatMapAnswer(404, "Showtime not found", t, <<>>)>>
            /\ sm' = sm
       ELSE /\ out' = <<>>
            /\ sm' = [sm EXCEPT ![c] = [pc |-> "locks", showtimeId |-> t,
                                         bookedSeats |-> SeatMapBooked(t)]]
    /\ UNCHANGED <<clock, rooms, view, applied, seat_locks, bookingTables, sel,
                   cr, sweep, faults>>

\* the unexpired locks are read and the seats are answered; the page that
\* asked (fetchSeats) shows them
SeatMapRespond(c) ==
    LET r == sm[c]
        seats == [s \in Seats |->
                    SeatStatus(s, r.bookedSeats, SeatMapLocked(r.showtimeId))]
    IN  /\ r.pc = "locks"
        /\ out' = <<SeatMapAnswer(200, "-", r.showtimeId, seats)>>
        /\ view' = [view EXCEPT ![c] = seats]
        /\ applied' = [applied EXCEPT ![c] = {}]
        /\ sm' = [sm EXCEPT ![c] = SmIdle]
        /\ UNCHANGED <<clock, rooms, seat_locks, bookingTables, sel, cr, sweep,
                       faults>>

(***************************************************************************)
(* The booking page: the listeners of the seat events                      *)
(***************************************************************************)
\* updateSeatStatus(seatIds, status, lockedBy, lockedUntil)
UpdateSeatStatus(seats, ids, status, by, until) ==
    [s \in DOMAIN seats |->
        IF s \in ids THEN SeatView(status, by, until) ELSE seats[s]]

\* socket.on('seats-locked' | 'seats-released' | 'seats-booked', ...)
OnSeatEvent(c, seats, e) ==
    IF e.type = "seats-locked"
    THEN IF e.lockedBy # c
         THEN UpdateSeatStatus(seats, e.seatIds, "locked", e.lockedBy, e.lockedUntil)
         ELSE seats
    ELSE IF e.type = "seats-released"
    THEN UpdateSeatStatus(seats, e.seatIds, "available", NoHolder, NoDate)
    ELSE UpdateSeatStatus(seats, e.seatIds, "booked", NoHolder, NoDate)

RECURSIVE ApplyEvents(_, _, _)
ApplyEvents(c, seats, es) ==
    IF es = <<>> THEN seats
    ELSE ApplyEvents(c, OnSeatEvent(c, seats, Head(es)), Tail(es))

\* the seat events of the last step that reach c, in the order of emission
Delivered(c) ==
    SelectSeq(out, LAMBDA o : o.type \in SeatEvents /\ c \in Receivers(o))

\* the page of c handles the events the last step sent it
Receive(c) ==
    LET es == Delivered(c)
    IN  /\ es # <<>>
        /\ view' = [view EXCEPT ![c] = ApplyEvents(c, view[c], es)]
        /\ applied' = [applied EXCEPT ![c] = @ \cup
              {s \in DOMAIN view[c] :
                  \E i \in 1..Len(es) :
                      es[i].type = "seats-booked" /\ s \in es[i].seatIds}]
        /\ UNCHANGED <<clock, rooms, sm, seat_locks, bookingTables, sel, cr,
                       sweep, faults, out>>

(***************************************************************************)
(* Specification                                                           *)
(***************************************************************************)
Init ==
    /\ now = 0
    /\ lastSweep = 0
    /\ seat_locks = {}
    /\ bookings = {}
    /\ booking_seats = {}
    /\ payments = {}
    /\ intents = {}
    /\ nextBooking = 1
    /\ sel = [u \in Users |-> SelIdle]
    /\ cr = [u \in Users |-> CrIdle]
    /\ sweep = SweepIdle
    /\ faults = 0
    /\ out = <<>>
    /\ rooms = [c \in Users |-> {}]
    /\ sm = [c \in Users |-> SmIdle]
    /\ view = [c \in Users |-> <<>>]
    /\ applied = [c \in Users |-> {}]

\* The socket handlers.  lists are the seatIds arrays clients may send; a
\* new handler starts while fewer than k handlers are in flight.
SocketActions(lists, acts, k) ==
    \/ \E u \in Users, t \in Showtimes, ids \in lists, a \in acts :
          InFlight < k /\ SelectSeats(u, t, ids, a)
    \/ \E u \in Users : SelectEmit(u)
    \/ \E u \in Users : Disconnect(u)

\* the second and later store calls of a select-seats message
LoopActions == \E u \in Users : SelectLoop(u)

TimerActions(k) ==
    \/ Tick
    \/ InFlight < k /\ SweepSelect
    \/ SweepDelete
    \/ SweepEmit

BookingActions(k) ==
    \/ \E u \in Users, t \in Showtimes \cup {UnknownShowtime}, ids \in SeatSets :
          InFlight < k /\ CreateBooking(u, t, ids)
    \/ \E u \in Users, fail \in BOOLEAN : CreateCheckLocks(u, fail)
    \/ \E u \in Users, fail \in BOOLEAN : CreateCheckBooked(u, fail)
    \/ \E u \in Users, fail \in BOOLEAN : CreateInsertBooking(u, fail)
    \/ \E u \in Users, fail \in BOOLEAN : CreateInsertSeats(u, fail)
    \/ \E u \in Users, fail \in BOOLEAN : CreateRollback(u, fail)

PaymentActions ==
    \/ \E u \in Users, b \in BookingIds, fail \in BOOLEAN : CreateIntent(u, b, fail)
    \/ \E i \in intents, fail \in WebhookFaults : WebhookSucceeded(i, fail)

PaymentFailedActions ==
    \E i \in intents, fail \in BOOLEAN : WebhookFailed(i, fail)

Actions == {"select", "deselect"}

\* the arrays the booking page sends: one seat per select-seats message
SingleSeat == {<<s>> : s \in Seats}

\* The lock manager: select-seats with arbitrary seat lists, disconnects,
\* the clock and the cleanup timer.
Next ==
    \/ SocketActions(SeatLists, Actions, MaxInFlight)
    \/ LoopActions
    \/ TimerActions(MaxInFlight)

Spec == Init /\ [][Next]_vars

\* The booking life cycle on top of the locks the booking page takes; locks
\* are given up by disconnecting.
NextBooking ==
    \/ SocketActions(SingleSeat, {"select"}, MaxInFlightBooking)
    \/ BookingActions(MaxInFlightBooking)
    \/ PaymentActions

SpecBooking == Init /\ [][NextBooking]_vars

\* Booking creation against locks that expire.
NextExpiry ==
    \/ SocketActions(SingleSeat, Actions, MaxInFlightBooking)
    \/ TimerActions(MaxInFlightBooking)
    \/ BookingActions(MaxInFlightBooking)

SpecExpiry == Init /\ [][NextExpiry]_vars

ConfirmActions(lists, k) ==
    \E u \in Users, t \in Showtimes, ids \in lists, b \in BookingIds :
        InFlight < k /\ ConfirmBooking(u, t, ids, b)

RoomActions ==
    \/ \E c \in Users, t \in RoomIds : JoinShowtime(c, t)
    \/ \E c \in Users, t \in RoomIds : LeaveShowtime(c, t)

\* The rooms: connections join and leave showtime rooms while seats are
\* selected, deselected and announced as booked.
NextRooms ==
    \/ SocketActions(SingleSeat, Actions, MaxInFlightBooking)
    \/ ConfirmActions(SingleSeat, MaxInFlightBooking)
    \/ RoomActions

SpecRooms == Init /\ [][NextRooms]_vars

\* the clients whose booking page is followed
Viewers == {"V"}

\* booking creation with no store call failing, of at most n bookings
CreationActions(k, n) ==
    \/ \E u \in Users, t \in Showtimes, ids \in SeatSets :
          InFlight < k /\ nextBooking <= n /\ CreateBooking(u, t, ids)
    \/ \E u \in Users : CreateCheckLocks(u, FALSE)
    \/ \E u \in Users : CreateCheckBooked(u, FALSE)
    \/ \E u \in Users : CreateInsertBooking(u, FALSE)
    \/ \E u \in Users : CreateInsertSeats(u, FALSE)

\* payment with no store call failing, with at most n payment intents
PaymentOkActions(n) ==
    \/ \E u \in Users, b \in BookingIds :
          Cardinality(intents) < n /\ CreateIntent(u, b, FALSE)
    \/ \E i \in intents : WebhookSucceeded(i, "none")

\* the booking pages of the clients cs: a page joins the room of its
\* showtime, fetches the seat map and handles the seat events
PageActions(cs, k) ==
    \/ \E c \in cs, t \in Showtimes : JoinShowtime(c, t)
    \/ \E c \in cs, t \in Showtimes : InFlight < k /\ SeatMapQuery(c, t)
    \/ \E c \in cs : SeatMapRespond(c)
    \/ \E c \in cs : Receive(c)

\* The viewers of a showtime while seats are locked, booked and paid.
NextClient ==
    \/ SocketActions(SingleSeat, Actions, MaxInFlightBooking)
    \/ PageActions(Viewers, MaxInFlightBooking)
    \/ CreationActions(MaxInFlightBooking, MaxPaidBookings)
    \/ PaymentOkActions(MaxPaidBookings)

SpecClient == Init /\ [][NextClient]_vars

StatusActions ==
    \/ \E b \in BookingIds : SettleBooking(b)
    \/ \E b \in BookingIds : CancelBooking(b)

\* Payments that succeed and fail, for bookings that may be settled or
\* cancelled meanwhile.
NextPayment ==
    \/ SocketActions(SingleSeat, {"select"}, MaxInFlightBooking)
    \/ CreationActions(MaxInFlightBooking, MaxPaidBookings)
    \/ PaymentOkActions(MaxIntents)
    \/ PaymentFailedActions
    \/ StatusActions

SpecPayment == Init /\ [][NextPayment]_vars

\* select-seats and confirm-booking for the showtimes ts
ShowtimeActions(ts, lists, k) ==
    \/ \E u \in Users, t \in ts, ids \in lists, a \in Actions :
          InFlight < k /\ SelectSeats(u, t, ids, a)
    \/ \E u \in Users, t \in ts, ids \in lists, b \in 1..MaxPaidBookings :
          InFlight < k /\ ConfirmBooking(u, t, ids, b)
    \/ \E u \in Users : SelectEmit(u)

\* Users who hold locks on the same seats of two showtimes while one of the
\* showtimes is booked and paid.
NextShowtimes ==
    \/ ShowtimeActions(RoomIds, SingleSeat, MaxInFlightBooking)
    \/ CreationActions(MaxInFlightBooking, MaxPaidBookings)
    \/ PaymentOkActions(MaxPaidBookings)

SpecShowtimes == Init /\ [][NextShowtimes]_vars

\* The lock manager with a store that may fail: one handler at a time, no
\* disconnects.
NextLockFaults ==
    \/ \E u \in Users, t \in Showtimes, ids \in SeatLists, a \in Actions,
          fail \in BOOLEAN :
          InFlight < MaxInFlightBooking /\ SelectSeatsCall(u, t, ids, a, fail)
    \/ \E u \in Users, fail \in BOOLEAN : SelectLoopCall(u, fail)
    \/ \E u \in Users : SelectEmit(u)
    \/ TimerActions(MaxInFlightBooking)

SpecLockFaults == Init /\ [][NextLockFaults]_vars

\* The cleanup over two showtimes whose locks expire while seats are
\* selected, deselected and confirmed.
NextSweep ==
    \/ ShowtimeActions(RoomIds, SingleSeat, MaxInFlight)
    \/ TimerActions(MaxInFlight)

SpecSweep == Init /\ [][NextSweep]_vars

\* The cleanup with a store that may fail, followed for one more minute;
\* one handler at a time.
NextSweepFaults ==
    \/ SocketActions(SeatLists, Actions, MaxInFlightBooking)
    \/ LoopActions
    \/ TickTo(MaxRetryTime)
    \/ \E fail \in BOOLEAN : InFlight < MaxInFlightBooking /\ SweepSelectCall(fail)
    \/ \E fail \in BOOLEAN : SweepDeleteCall(fail)
    \/ SweepEmit

SpecSweepFaults == Init /\ [][NextSweepFaults]_vars

\* Every way a lock is given up: deselect, confirm-booking, disconnect and
\* the payment of a booking, with seat lists of any length.
NextRelease ==
    \/ SocketActions(SeatLists, Actions, MaxInFlightBooking)
    \/ ConfirmActions(SeatLists, MaxInFlightBooking)
    \/ LoopActions
    \/ CreationActions(MaxInFlightBooking, MaxPaidBookings)
    \/ PaymentOkActions(MaxPaidBookings)

SpecRelease == Init /\ [][NextRelease]_vars

\* Every operation of the program that writes the bookings table, while the
\* locks the bookings were made under expire.
NextLifecycle ==
    \/ SocketActions(SingleSeat, {"select"}, MaxInFlightBooking)
    \/ TimerActions(MaxInFlightBooking)
    \/ CreationActions(MaxInFlightBooking, MaxPaidBookings)
    \/ \E u \in Users : CreateInsertSeats(u, TRUE)
    \/ \E u \in Users, fail \in BOOLEAN : CreateRollback(u, fail)
    \/ PaymentOkActions(MaxPaidBookings)
    \/ \E i \in intents, fail \in WebhookFaults \ {"none"} : WebhookSucceeded(i, fail)
    \/ PaymentFailedActions

SpecLifecycle == Init /\ [][NextLifecycle]_vars

(***************************************************************************)
(* The seat-map query on its own, asked in any state of the tables         *)
(***************************************************************************)
BookingStatuses == {"pending", "paid", "confirmed", "cancelled"}

\* the instant of the last cleanup before t0
LastSweepBefore(t0) ==
    IF t0 = 0 THEN 0
    ELSE CHOOSE t \in Instants : t < t0 /\ \A x \in Instants : x < t0 => x <= t

\* the lock tables at instant t0, after the cleanup of the instant before:
\* one row per (seat, showtime), written at some instant up to t0
LockTables(t0) ==
    LET rows == {LockRow(s, t, u, LockExpiry(w)) :
                    s \in Seats, t \in Showtimes, u \in Users,
                    w \in {x \in Instants : x <= t0}}
    IN  {locks \in SUBSET rows :
            /\ \A l1 \in locks, l2 \in locks : LockKey(l1) = LockKey(l2) => l1 = l2
            /\ \A l \in locks : l.locked_until >= LastSweepBefore(t0)}

InitSeatMap ==
    /\ now \in Instants
    /\ lastSweep = LastSweepBefore(now)
    /\ seat_locks \in LockTables(now)
    /\ nextBooking \in 1..(MaxBookings + 1)
    /\ \E f \in [1..(nextBooking - 1) -> Users \X BookingStatuses \X SUBSET Seats] :
          /\ bookings = {BookingRow(b, f[b][1], "S", f[b][2]) : b \in DOMAIN f}
          /\ booking_seats = UNION {BookingSeatsData(b, "S", f[b][3]) : b \in DOMAIN f}
    /\ payments = {}
    /\ intents = {}
    /\ sel = [u \in Users |-> SelIdle]
    /\ cr = [u \in Users |-> CrIdle]
    /\ sweep = SweepIdle
    /\ faults = 0
    /\ out = <<>>
    /\ rooms = [c \in Users |-> {}]
    /\ sm = [c \in Users |-> SmIdle]
    /\ view = [c \in Users |-> <<>>]
    /\ applied = [c \in Users |-> {}]

NextSeatMap ==
    \/ \E c \in Viewers, t \in Showtimes \cup {UnknownShowtime} : SeatMapQuery(c, t)
    \/ \E c \in Viewers : SeatMapRespond(c)

SpecSeatMap == InitSeatMap /\ [][NextSeatMap]_vars

(***************************************************************************)
(* Properties                                                              *)
(***************************************************************************)
\* a lock that has not expired
Unexpired(l) == l.locked_until > now

\* the bookings row a booking_seats row belongs to
BookingsOf(bs) == {b \in bookings : b.id = bs.booking_id}

\* the booking_seats rows of seat s and showtime t under a paid or confirmed
\* booking: the seat is permanently taken
TakenLinks(s, t) ==
    {bs \in booking_seats :
        /\ bs.seat_id = s
        /\ bs.showtime_id = t
        /\ \E b \in BookingsOf(bs) : b.status \in {"paid", "confirmed"}}

\* seat s of showtime t is permanently taken by somebody other than u
TakenByOther(s, t, u) ==
    \E bs \in TakenLinks(s, t) : \E b \in BookingsOf(bs) : b.user_id # u

\* seat s of showtime t is held by an unexpired lock of somebody other than u
LockedByOther(s, t, u) ==
    \E l \in seat_locks :
        /\ l.seat_id = s
        /\ l.showtime_id = t
        /\ l.user_id # u
        /\ Unexpired(l)

\* the answers and events of the last step
Outputs == Range(out)

\* C1: in every reachable state no (seat, showtime) pair has both an
\* unexpired lock held by a user A and a booking-seat link under a paid or
\* confirmed booking of a user other than A.
C1_LockExcludesForeignBooking ==
    \A l \in seat_locks :
        Unexpired(l) => ~TakenByOther(l.seat_id, l.showtime_id, l.user_id)

\* C2: every (seat, showtime) pair is linked to at most one booking whose
\* status is paid or confirmed.
C2_NoDoubleBooking ==
    \A s \in Seats, t \in Showtimes :
        Cardinality({bs.booking_id : bs \in TakenLinks(s, t)}) <= 1

\* u's select-seats handler has made all its store calls without an error and
\* is about to announce seats-locked
Succeeding(u) == sel[u].pc = "emit" /\ sel[u].action = "select"

\* C3: of two select-seats handlers of different users that overlap and name
\* the same seat of the same showtime, at most one ends on the success path;
\* the other is told of the conflict.
C3_OneWinner ==
    \A u \in Users, v \in Users :
        (/\ u # v
         /\ Succeeding(u)
         /\ Succeeding(v)
         /\ sel[u].showtimeId = sel[v].showtimeId
         /\ Range(sel[u].seatIds) \cap Range(sel[v].seatIds) # {})
        => FALSE

\* this step is a store call of a select request of u
SelectStoreStep(u) ==
    /\ sel'[u] # sel[u]
    /\ sel'[u].disconnected = sel[u].disconnected
    /\ sel'[u].pc # "idle"
    /\ sel'[u].action = "select"

\* C4: a store call of a select request that names several seats, one of
\* them locked (unexpired) by another user or permanently booked, changes no
\* lock row.
C4_AllOrNothing ==
    [][\A u \in Users :
          (/\ SelectStoreStep(u)
           /\ Len(sel'[u].seatIds) > 1
           /\ \E s \in Range(sel'[u].seatIds) :
                 \/ LockedByOther(s, sel'[u].showtimeId, u)
                 \/ TakenLinks(s, sel'[u].showtimeId) # {})
          => seat_locks' = seat_locks]_vars

\* C5: no step writes a lock row for a (seat, showtime) pair that is linked
\* to a paid booking of a user other than the lock's holder.
C5_NoLockAfterPaid ==
    [][\A l \in seat_locks' \ seat_locks :
          ~TakenByOther(l.seat_id, l.showtime_id, l.user_id)]_vars

\* u holds an unexpired lock on seat s of showtime t
HoldsValidLock(u, s, t) ==
    \E l \in seat_locks :
        /\ l.seat_id = s
        /\ l.showtime_id = t
        /\ l.user_id = u
        /\ Unexpired(l)

\* C6: a create-booking request passes the lock check only if every requested
\* seat has a lock of the requester for the showtime that expires in the
\* future.
C6_OnlyValidLocks ==
    [][\A u \in Users :
          (cr[u].pc = "locks" /\ cr'[u].pc = "booked")
          => \A s \in cr[u].seatIds : HoldsValidLock(u, s, cr[u].showtimeId)]_vars

\* the request of u has been accepted and has not passed the booked check
BeforeInsert(u) == cr[u].pc \in {"locks", "booked"}

\* some seat of u's request is permanently taken
RequestsTakenSeat(u) ==
    \E s \in cr[u].seatIds : TakenLinks(s, cr[u].showtimeId) # {}

\* C7: a create-booking request with a seat that is linked, for the
\* showtime, to a paid or confirmed booking never gets past the booked check:
\* it stays before the inserts or ends, no bookings or booking_seats row is
\* inserted for it, and the seat stays taken.
C7_BookedSeatsRejected ==
    [][\A u \in Users :
          (BeforeInsert(u) /\ RequestsTakenSeat(u))
          => /\ cr'[u] = cr[u] \/ cr'[u].pc = "idle"
                \/ (cr[u].pc = "locks" /\ cr'[u] = [cr[u] EXCEPT !.pc = "booked"])
             /\ \A b \in bookings' \ bookings : b.user_id # u \/ b.status # "pending"
             /\ \A bs \in booking_seats' \ booking_seats :
                   \A b \in bookings' : b.id = bs.booking_id => b.user_id # u
             /\ \A s \in cr[u].seatIds :
                   TakenLinks(s, cr[u].showtimeId) # {}
                   => \E bs \in booking_seats' :
                         /\ bs.seat_id = s
                         /\ bs.showtime_id = cr[u].showtimeId
                         /\ \E b \in bookings' :
                               b.id = bs.booking_id /\ b.status \in {"paid", "confirmed"}]_vars

\* a request for a taken seat has just been answered "already booked", and
\* the tables hold no row of a booking in creation
C7_Witness ==
    /\ BookingAnswer(400, AlreadyBookedError, 0) \in Outputs
    /\ \A u \in Users : cr[u].pc = "idle"
    /\ \E s \in Seats, t \in Showtimes : TakenLinks(s, t) # {}

\* C8: every booking with status pending has at least one booking-seat row.
C8_PendingHasSeats ==
    \A b \in bookings :
        b.status = "pending" => \E bs \in booking_seats : bs.booking_id = b.id

\* the last step answered a payment_intent.succeeded event for booking b
\* with 200
Confirmed(b, outs) ==
    \E o \in outs :
        /\ o.type = "payment_intent.succeeded"
        /\ o.status = 200
        /\ o.bookingId = b

\* C9: after a payment-succeeded event for booking b has been processed with
\* no store call failing, b is paid, b's user holds no lock on b's seats for
\* b's showtime, and seats-booked with exactly b's seats and b's id has been
\* emitted to the channel of b's showtime.
C9_PaymentConfirmed ==
    [][\A b \in BookingIds :
          (Confirmed(b, Range(out')) /\ faults' = faults)
          => \E x \in bookings' :
                /\ x.id = b
                /\ x.status = "paid"
                /\ \A l \in seat_locks' :
                      ~(/\ l.user_id = x.user_id
                        /\ l.showtime_id = x.showtime_id
                        /\ \E bs \in booking_seats' :
                              bs.booking_id = b /\ bs.seat_id = l.seat_id)
                /\ SeatsBooked(x.showtime_id,
                               {bs.seat_id : bs \in {y \in booking_seats' : y.booking_id = b}},
                               b) \in Range(out')]_vars

\* C10: processing payment-succeeded for a booking that is already paid,
\* with no store call failing, raises no error, changes no bookings,
\* booking_seats, payments or seat_locks row and emits no seats-booked event.
C10_ConfirmIdempotent ==
    [][\A x \in bookings :
          (/\ x.status = "paid"
           /\ faults' = faults
           /\ \E o \in Range(out') :
                 o.type = "payment_intent.succeeded" /\ o.bookingId = x.id)
          => /\ Confirmed(x.id, Range(out'))
             /\ bookings' = bookings
             /\ booking_seats' = booking_seats
             /\ payments' = payments
             /\ seat_locks' = seat_locks
             /\ \A o \in Range(out') : o.type # "seats-booked"]_vars

\* the cleanup that fired at the present instant has run to its end
SweepDone == lastSweep = now /\ sweep.pc = "idle"

\* some seats-released event of outs names seat s on the channel of showtime t
ReleaseAnnounced(outs, t, s) ==
    \E o \in outs :
        /\ o.type = "seats-released"
        /\ o.showtimeId = t
        /\ s \in o.seatIds

\* C11: a lock created at T that nobody re-acquires, releases or converts is
\* gone from the store once the cleanup of an instant later than its expiry
\* T + LockTTL has run, which the timer starts within SweepInterval of the
\* expiry and before the clock moves on; every lock the cleanup deletes was
\* selected by it, and the cleanup ends by emitting seats-released naming
\* every selected seat on the channel of its showtime.  No client acts in
\* any of these steps.
C11_ExpiryLiveness ==
    [][/\ SweepDone' => \A l \in seat_locks' : l.locked_until >= now'
       /\ now' # now => SweepDone
       /\ (sweep.pc = "delete" /\ sweep'.pc = "emit")
          => \A l \in seat_locks \ seat_locks' :
                <<l.showtime_id, l.seat_id>> \in sweep.expiredLocks
       /\ (sweep.pc = "emit" /\ sweep' # sweep)
          => /\ sweep'.pc = "idle"
             /\ \A p \in sweep.expiredLocks :
                   ReleaseAnnounced(Range(out'), p[1], p[2])]_vars

\* the lock taken at minute 0 was left alone, and the cleanup has just
\* announced its release one interval after its expiry
C11_Witness ==
    /\ now = LockTTL + SweepInterval
    /\ SweepDone
    /\ \E s \in Seats, t \in Showtimes : ReleaseAnnounced(Outputs, t, s)
    /\ \A l \in seat_locks : l.locked_until > now

\* the seat the last store call of handler record r was about
ProcessedSeat(r) == IF r.pc = "emit" THEN r.seatIds[r.i] ELSE r.seatIds[r.i - 1]

\* this step is a store call of a deselect request of u
DeselectStoreStep(u) ==
    /\ sel'[u] # sel[u]
    /\ sel'[u].disconnected = sel[u].disconnected
    /\ sel'[u].pc # "idle"
    /\ sel'[u].action = "deselect"

\* this step ends a deselect request of u
DeselectEnd(u) ==
    /\ sel[u].pc = "emit"
    /\ sel[u].action = "deselect"
    /\ sel'[u].pc = "idle"

\* C12: each store call of a deselect request removes the requester's lock
\* on the seat it names and no other user's lock, whether or not the
\* requester held one; the request ends with seats-released and no error;
\* and when it ends, the same request once more would change no lock row.
C12_ReleaseIdempotent ==
    [][\A u \in Users :
          /\ DeselectStoreStep(u)
             => LET s == ProcessedSeat(sel'[u])
                IN  /\ \A l \in seat_locks' :
                          ~(l.user_id = u /\ l.seat_id = s
                            /\ l.showtime_id = sel'[u].showtimeId)
                    /\ seat_locks' \subseteq seat_locks
                    /\ \A l \in seat_locks \ seat_locks' : l.user_id = u /\ l.seat_id = s
          /\ DeselectEnd(u)
             => /\ out' = <<SeatsReleased(sel[u].showtimeId, Range(sel[u].seatIds), u)>>
                /\ \A s \in Range(sel[u].seatIds) :
                      SelectStore(seat_locks', u, sel[u].showtimeId, s, "deselect", 0)
                         = seat_locks']_vars

\* a deselect request for two seats has made its store calls while the
\* requester held a lock on neither and another user holds locks
C12_Witness ==
    \E u \in Users :
        /\ sel[u].pc = "emit"
        /\ sel[u].action = "deselect"
        /\ Len(sel[u].seatIds) > 1
        /\ seat_locks # {}
        /\ \A l \in seat_locks : l.user_id # u

\* u holds no lock in the given table
NoLocksOf(locks, u) == \A l \in locks : l.user_id # u

\* C13: once the disconnect of u's connection has been handled, the store
\* holds no lock of u: not right after the handler's delete, and not while a
\* select-seats handler of the closed connection is still running or when
\* it ends.
C13_DisconnectReleasesAll ==
    [][\A u \in Users :
          /\ Disconnect(u) => NoLocksOf(seat_locks', u)
          /\ sel[u].disconnected => NoLocksOf(seat_locks', u)]_vars

\* the connections in the room of showtime t, rms being the rooms
InRoom(rms, t) == {c \in Users : t \in rms[c]}

\* this step is the emit that ends a socket handler of u
HandlerEmit(u) == sel[u].pc = "emit" /\ sel'[u].pc = "idle"

\* C19: the event that ends a select-seats handler of connection u for
\* showtime t (seats-locked or seats-released) reaches exactly the
\* connections that are in t's room, u excepted; the seats-booked event of a
\* confirm-booking handler reaches exactly the connections in t's room, u
\* included if it is there.  A connection that has left the room, has
\* disconnected or is only in other rooms is not among them.
C19_Delivery ==
    [][\A u \in Users :
          HandlerEmit(u)
          => /\ Len(out') = 1
             /\ out'[1].type = (IF sel[u].action = "select" THEN "seats-locked"
                                ELSE IF sel[u].action = "deselect" THEN "seats-released"
                                ELSE "seats-booked")
             /\ ReceiversIn(rooms', out'[1]) =
                   (IF sel[u].action = "confirm"
                    THEN InRoom(rooms', sel[u].showtimeId)
                    ELSE InRoom(rooms', sel[u].showtimeId) \ {u})]_vars

\* a seats-locked event has just gone to the other connection in the room
\* and not to its sender, who is in the room as well
C19_Witness ==
    \E u \in Users, v \in Users, e \in Outputs :
        /\ u # v
        /\ e.type = "seats-locked"
        /\ e.lockedBy = u
        /\ e.showtimeId \in rooms[u] \cap rooms[v]
        /\ Receivers(e) = {v}

\* C14: a seat for which a client has applied a seats-booked event keeps
\* the status booked on that client's page whatever event the page handles
\* afterwards.
C14_BookedIsTerminal ==
    [][\A c \in Users :
          \A s \in applied[c] \cap applied'[c] :
              view[c][s].status = "booked" => view'[c][s].status = "booked"]_vars

\* the unexpired locks on seat s of showtime t
ValidLocks(s, t) ==
    {l \in seat_locks : l.seat_id = s /\ l.showtime_id = t /\ Unexpired(l)}

\* C15: the seat map answered for a showtime has every seat, with status
\* booked if the seat is linked for the showtime to a paid or confirmed
\* booking, otherwise locked with the holder and the expiry of its unexpired
\* lock, otherwise available with no holder and no expiry.
C15_SeatMap ==
    \A o \in Outputs :
        (o.type = "GET /seats" /\ o.status = 200)
        => /\ DOMAIN o.seats = Seats
           /\ \A s \in Seats :
                 IF TakenLinks(s, o.showtimeId) # {}
                 THEN o.seats[s].status = "booked"
                 ELSE IF ValidLocks(s, o.showtimeId) # {}
                 THEN \E l \in ValidLocks(s, o.showtimeId) :
                         o.seats[s] = SeatView("locked", l.user_id, l.locked_until)
                 ELSE o.seats[s] = SeatView("available", NoHolder, NoDate)

\* a seat map has been answered in which a seat that is paid for and locked
\* is booked and a seat with an expired lock is available
C15_Witness ==
    \E o \in Outputs, s1 \in Seats, s2 \in Seats :
        /\ o.type = "GET /seats"
        /\ o.status = 200
        /\ o.seats[s1].status = "booked"
        /\ ValidLocks(s1, o.showtimeId) # {}
        /\ o.seats[s2].status = "available"
        /\ \E l \in seat_locks :
              l.seat_id = s2 /\ l.showtime_id = o.showtimeId /\ ~Unexpired(l)

\* the status changes of the booking state machine
StatusChanges ==
    {<<"pending", "paid">>, <<"paid", "confirmed">>,
     <<"pending", "cancelled">>, <<"paid", "cancelled">>}

\* C16: whenever a step changes the status of a booking, the change is
\* pending to paid, paid to confirmed, pending to cancelled or paid to
\* cancelled; so a cancelled or confirmed booking is never moved to paid and
\* never changes again.
C16_StatusMachine ==
    [][\A x \in bookings, y \in bookings' :
          (x.id = y.id /\ x.status # y.status)
          => <<x.status, y.status>> \in StatusChanges]_vars

\* the last step answered a payment_intent.payment_failed event
FailedAnswers(outs) == {o \in outs : o.type = "payment_intent.payment_failed"}

\* C17: processing payment-failed with no store call failing sets the
\* payment record of the intent to failed and leaves every other payment
\* record, every booking, every booking_seats row and every lock as it was,
\* and emits no seat event.
C17_FailedKeepsBooking ==
    [][\A o \in FailedAnswers(Range(out')) :
          faults' = faults
          => /\ o.status = 200
             /\ bookings' = bookings
             /\ booking_seats' = booking_seats
             /\ seat_locks' = seat_locks
             /\ \A e \in Range(out') : e.type \notin SeatEvents
             /\ \E i \in intents :
                   /\ i.bookingId = o.bookingId
                   /\ \A p \in payments :
                         IF p.stripe_payment_intent_id = i.id
                         THEN [p EXCEPT !.payment_status = "failed"] \in payments'
                         ELSE p \in payments'
                   /\ Cardinality(payments') <= Cardinality(payments)]_vars

\* a payment of a pending booking has just been set to failed while another
\* payment is still pending and the booking's user holds the lock
C17_Witness ==
    /\ FailedAnswers(Outputs) # {}
    /\ \E p \in payments, q \in payments, b \in bookings, l \in seat_locks :
          /\ p.payment_status = "failed"
          /\ q.payment_status = "pending"
          /\ b.id = p.booking_id
          /\ b.status = "pending"
          /\ l.user_id = b.user_id
          /\ \E bs \in booking_seats : bs.booking_id = b.id /\ bs.seat_id = l.seat_id

\* the locks of u on seat s of showtime t
LocksOn(locks, u, s, t) ==
    {l \in locks : l.user_id = u /\ l.seat_id = s /\ l.showtime_id = t}

\* C18: every lock row a select request writes expires LockTTL after the
\* instant the request is handled; the rows of one request share that
\* expiry, which the seats-locked event carries; and where the requester
\* already held the lock, the new expiry is not earlier than the old one.
C18_LockExpiry ==
    [][\A u \in Users :
          /\ SelectStoreStep(u)
             => LET s == ProcessedSeat(sel'[u])
                    t == sel'[u].showtimeId
                IN  /\ sel'[u].lockExpiry = now + LockTTL
                    /\ LocksOn(seat_locks', u, s, t)
                          = {LockRow(s, t, u, now + LockTTL)}
                    /\ \A l \in seat_locks' \ seat_locks :
                          l.locked_until = now + LockTTL
                    /\ \A l \in LocksOn(seat_locks, u, s, t) :
                          l.locked_until <= now + LockTTL
          /\ (HandlerEmit(u) /\ sel[u].action = "select")
             => /\ out' = <<SeatsLocked(sel[u].showtimeId, Range(sel[u].seatIds),
                                        u, now + LockTTL)>>
                /\ \A l \in seat_locks :
                      (l.user_id = u /\ l.seat_id \in Range(sel[u].seatIds)
                       /\ l.showtime_id = sel[u].showtimeId)
                      => l.locked_until = out'[1].lockedUntil]_vars

\* a request for two seats, handled when the first locks can have expired,
\* has made its store calls: both rows carry the expiry counted from then
C18_Witness ==
    \E u \in Users :
        /\ now >= LockTTL
        /\ sel[u].pc = "emit"
        /\ sel[u].action = "select"
        /\ Len(sel[u].seatIds) > 1
        /\ \A s \in Range(sel[u].seatIds) :
              LockRow(s, sel[u].showtimeId, u, now + LockTTL) \in seat_locks

\* C20: no booking has more than one payment record with status pending.
C20_OneActivePayment ==
    \A b \in BookingIds :
        Cardinality({p \in payments :
                        p.booking_id = b /\ p.payment_status = "pending"}) <= 1

\* C21: every lock row the disconnect handler deletes is announced by a
\* seats-released event on the channel of the lock's showtime, emitted by the
\* handler itself; and a deselect request ends by announcing the seats it
\* was asked to release on the channel of its showtime.
C21_RemovalAnnounced ==
    [][\A u \in Users :
          /\ Disconnect(u)
             => \A l \in seat_locks \ seat_locks' :
                   ReleaseAnnounced(Range(out'), l.showtime_id, l.seat_id)
          /\ DeselectEnd(u)
             => \A s \in Range(sel[u].seatIds) :
                   ReleaseAnnounced(Range(out'), sel[u].showtimeId, s)]_vars

\* this step is the delete of the cleanup in flight
SweepDeleteStep == sweep.pc = "delete" /\ sweep'.pc = "emit"

\* this step is the emit that ends the cleanup in flight
SweepEmitStep == sweep.pc = "emit" /\ sweep'.pc = "idle"

\* C22: the cleanup announces the release of a seat only if its own delete
\* removed a lock of that seat and showtime, and when the cleanup ends, no
\* seat it announces as released has a lock row that is present and
\* unexpired; each seat is named by one event of the cleanup only.
C22_SweepAnnouncesOwnDeletes ==
    [][/\ SweepDeleteStep
          => \A p \in sweep.expiredLocks :
                \E l \in seat_locks \ seat_locks' :
                    l.showtime_id = p[1] /\ l.seat_id = p[2]
       /\ SweepEmitStep
          => /\ \A i \in DOMAIN out' :
                   \A s \in out'[i].seatIds :
                       ~\E l \in seat_locks' :
                           /\ l.showtime_id = out'[i].showtimeId
                           /\ l.seat_id = s
                           /\ l.locked_until > now'
             /\ \A i \in DOMAIN out', j \in DOMAIN out' :
                   (i # j /\ out'[i].showtimeId = out'[j].showtimeId)
                   => out'[i].seatIds \cap out'[j].seatIds = {}]_vars

\* the seats the handler record r has made its store call on
ProcessedSeats(r) ==
    IF r.pc = "idle" THEN {}
    ELSE IF r.pc = "emit" THEN Range(r.seatIds)
    ELSE {r.seatIds[j] : j \in 1..(r.i - 1)}

\* a select request of v is in flight that has written its lock on seat s of
\* showtime t and has not announced it yet
WriterInFlight(v, s, t) ==
    /\ sel[v].action = "select"
    /\ sel[v].showtimeId = t
    /\ s \in ProcessedSeats(sel[v])

\* C23: the events of two select requests of different users on one seat
\* are emitted in the order in which the store applied their writes: when a
\* request announces seats-locked for a seat whose row the store has since
\* given to another user, that user's request has not announced it yet, so
\* that the last seats-locked event for the seat names the holder in the
\* store.
C23_EventOrder ==
    [][\A u \in Users :
          (HandlerEmit(u) /\ sel[u].action = "select")
          => \A s \in Range(sel[u].seatIds) :
                \A l \in seat_locks :
                    (/\ l.seat_id = s
                     /\ l.showtime_id = sel[u].showtimeId
                     /\ l.user_id # u)
                    => WriterInFlight(l.user_id, s, l.showtime_id)]_vars

\* the answers of the last step to a payment_intent.succeeded event
SucceededAnswers(outs) == {o \in outs : o.type = "payment_intent.succeeded"}

\* C24: a payment_intent.succeeded event one of whose store calls fails is
\* answered with a failure status, so that the gateway delivers it again;
\* an event answered with 200 leaves no lock of the paying user on the seats
\* of the booking.
C24_WebhookFailureSurfaced ==
    [][\A o \in SucceededAnswers(Range(out')) :
          /\ faults' # faults => o.status = 500
          /\ o.status = 200
             => \A i \in intents, l \in seat_locks' :
                   (i.bookingId = o.bookingId /\ l.user_id = i.userId)
                   => l.seat_id \notin
                         {bs.seat_id : bs \in SeatsOfBooking(o.bookingId)}]_vars

\* this step is a store call of a deselect or confirm-booking request of u
ReleaseStoreStep(u) ==
    /\ sel'[u] # sel[u]
    /\ sel'[u].disconnected = sel[u].disconnected
    /\ sel'[u].pc # "idle"
    /\ sel'[u].action \in {"deselect", "confirm"}

\* C25: every lock row that a store call of a deselect or confirm-booking
\* request for showtime t removes is a row of showtime t, and every lock row
\* that the confirmation of a payment removes is a row of the showtime of the
\* booking paid for: the locks the user holds on the same seats for another
\* showtime stay.
C25_DeleteScopedToShowtime ==
    [][/\ \A u \in Users :
             ReleaseStoreStep(u)
             => \A l \in seat_locks \ seat_locks' :
                   l.showtime_id = sel'[u].showtimeId
       /\ \A o \in SucceededAnswers(Range(out')) :
             \A l \in seat_locks \ seat_locks' :
                 \E x \in bookings : x.id = o.bookingId /\ l.showtime_id = x.showtime_id]_vars

\* C26: a select request announces seats-locked only when, at the emission,
\* every seat it names has a lock row of the showtime held by the requester;
\* a request one of whose lock writes failed announces nothing.
C26_LockedOnlyIfWritten ==
    [][\A u \in Users :
          (HandlerEmit(u) /\ sel[u].action = "select")
          => \A e \in Range(out') :
                e.type = "seats-locked"
                => \A s \in e.seatIds :
                      LocksOn(seat_locks, u, s, e.showtimeId) # {}]_vars

\* the status the seat-map query derives from the store for seat s of
\* showtime t
StoreStatus(s, t) == SeatStatus(s, SeatMapBooked(t), SeatMapLocked(t)).status

\* this step takes client c into the room of showtime t when its seat-list
\* fetch has completed and no handler is in flight: the events emitted
\* before went to the room without c, so none is on its way to c
JoinsQuiet(c, t) ==
    /\ t \notin rooms[c]
    /\ t \in rooms'[c]
    /\ view[c] # <<>>
    /\ InFlight = 0

\* C27: when a client whose seat-list fetch has completed joins the room of
\* the showtime with no handler in flight and no event on its way, the
\* status its page shows for every seat is the status the seat-map query
\* derives from the store.
C27_ViewMatchesStore ==
    [][\A c \in Viewers, t \in Showtimes :
          JoinsQuiet(c, t)
          => \A s \in Seats : view'[c][s].status = StoreStatus(s, t)']_vars

\* this step is the select with which a cleanup begins
SweepSelectStep == sweep.pc = "idle" /\ lastSweep' # lastSweep

\* the seats of showtime t among the (showtime, seat) pairs ps
SeatsOf(ps, t) == {p[2] : p \in {q \in ps : q[1] = t}}

\* C28: a cleanup taken at instant now selects exactly the locks whose
\* expiry is before now; its delete removes every lock whose expiry is
\* before that instant and no lock whose expiry is at or after it; and it
\* ends by emitting, to the whole room of each showtime that had a selected
\* lock, one seats-released event naming exactly the selected seats of that
\* showtime, and no other event.
C28_SweepTick ==
    [][/\ SweepSelectStep
          => /\ sweep'.pc = "idle" <=> \A l \in seat_locks : l.locked_until >= now
             /\ sweep'.pc # "idle"
                => /\ sweep'.now = now
                   /\ sweep'.expiredLocks =
                         {<<l.showtime_id, l.seat_id>> :
                             l \in {x \in seat_locks : x.locked_until < now}}
       /\ SweepDeleteStep
          => /\ seat_locks' \subseteq seat_locks
             /\ \A l \in seat_locks :
                   l \in seat_locks' <=> l.locked_until >= sweep.now
       /\ SweepEmitStep
          => /\ \A t \in RoomIds :
                   IF SeatsOf(sweep.expiredLocks, t) = {}
                   THEN \A i \in DOMAIN out' : out'[i].showtimeId # t
                   ELSE \E i \in DOMAIN out' :
                           /\ out'[i] = SeatsReleased(t, SeatsOf(sweep.expiredLocks, t), "-")
                           /\ \A j \in DOMAIN out' :
                                 out'[j].showtimeId = t => j = i
             /\ \A i \in DOMAIN out' : out'[i].showtimeId \in RoomIds]_vars

\* a cleanup has just announced the expired seats of two showtimes, one
\* event each, and a lock that had not expired is still in the store
C28_Witness ==
    /\ SweepDone
    /\ Len(out) = 2
    /\ out[1].type = "seats-released"
    /\ out[2].type = "seats-released"
    /\ out[1].showtimeId # out[2].showtimeId
    /\ \E l \in seat_locks : l.locked_until >= now
    /\ \A l \in seat_locks : l.locked_until >= now

\* the locks of the table that have expired at instant t0
ExpiredAt(locks, t0) == {l \in locks : l.locked_until < t0}

\* C29: the clock never moves on before the cleanup of the present instant
\* has run, whether or not an earlier cleanup failed; a cleanup store call
\* that fails removes no lock; and a cleanup whose store calls answer
\* selects every lock that has expired at its instant, among them the locks
\* a failed cleanup left behind, deletes all of them and announces every
\* one it selected.
C29_SweepRetries ==
    [][/\ now' # now => SweepDone
       /\ (SweepSelectStep \/ SweepDeleteStep) /\ faults' # faults
          => seat_locks' = seat_locks
       /\ SweepSelectStep /\ faults' = faults
          => /\ sweep'.pc = "idle" => ExpiredAt(seat_locks, now) = {}
             /\ sweep'.pc # "idle"
                => sweep'.expiredLocks =
                      {<<l.showtime_id, l.seat_id>> : l \in ExpiredAt(seat_locks, now)}
       /\ SweepDeleteStep /\ faults' = faults
          => ExpiredAt(seat_locks', now) = {}
       /\ SweepEmitStep
          => \A p \in sweep.expiredLocks :
                ReleaseAnnounced(Range(out'), p[1], p[2])]_vars

\* the cleanup of minute LockTTL + SweepInterval failed; the cleanup of the
\* minute after has just deleted and announced the lock it left behind
C29_Witness ==
    /\ now = LockTTL + 2 * SweepInterval
    /\ SweepDone
    /\ faults > 0
    /\ \E o \in Outputs : o.type = "seats-released" /\ o.except = "-"
    /\ ExpiredAt(seat_locks, now) = {}

\* C30: every seat that a seats-booked event of the last step names is
\* linked in the store, for the showtime of the event, to a booking with
\* status paid or confirmed.
C30_BookedEventIsBooked ==
    \A e \in Outputs :
        e.type = "seats-booked"
        => \A s \in e.seatIds : TakenLinks(s, e.showtimeId) # {}

\* C31: a deselect request of v ends without a seats-released event for a
\* seat on which another user holds an unexpired lock.  With one handler at
\* a time that lock was there when the request made its store call, which
\* then removed no lock of v on the seat.
C31_ReleaseOnlyOwnLock ==
    [][\A v \in Users :
          DeselectEnd(v)
          => \A e \in Range(out') :
                e.type = "seats-released"
                => \A s \in e.seatIds : ~LockedByOther(s, e.showtimeId, v)]_vars

\* every lock of the table that is held by somebody other than v
LocksOfOthers(locks, v) == {l \in locks : l.user_id # v}

\* C32: a store call of a deselect or confirm-booking request of v, the
\* disconnect of v and the confirmation of the payment of a booking of v
\* leave every lock row held by another user in the store, unchanged.
C32_OthersLocksKept ==
    [][/\ \A v \in Users :
             (ReleaseStoreStep(v) \/ Disconnect(v))
             => LocksOfOthers(seat_locks, v) \subseteq seat_locks'
       /\ \A o \in SucceededAnswers(Range(out')) :
             \A x \in bookings :
                 x.id = o.bookingId
                 => LocksOfOthers(seat_locks, x.user_id) \subseteq seat_locks']_vars

\* the payment of a booking has just been confirmed while another user
\* holds the lock on one of its seats: the lock is still there
C32_Witness ==
    \E o \in SucceededAnswers(Outputs), x \in bookings, l \in seat_locks :
        /\ o.status = 200
        /\ x.id = o.bookingId
        /\ x.status = "paid"
        /\ l.user_id # x.user_id
        /\ l.showtime_id = x.showtime_id
        /\ \E bs \in SeatsOfBooking(x.id) : bs.seat_id = l.seat_id

\* C33: every booking with status paid has a payments row with status
\* completed.
C33_PaidHasCompletedPayment ==
    \A b \in bookings :
        b.status = "paid"
        => \E p \in payments :
              p.booking_id = b.id /\ p.payment_status = "completed"

\* C34: every booking in the store has status pending or paid; the only
\* change of a booking's status is from pending to paid, made by a step
\* that processes a payment_intent.succeeded event for it; no other step,
\* the cleanup of its expired locks included, changes the status of a
\* pending booking.
C34_OnlyPendingOrPaid ==
    [][/\ \A y \in bookings' : y.status \in {"pending", "paid"}
       /\ \A x \in bookings, y \in bookings' :
             (x.id = y.id /\ x.status # y.status)
             => /\ x.status = "pending"
                /\ y.status = "paid"
                /\ \E o \in SucceededAnswers(Range(out')) : o.bookingId = x.id]_vars

\* the locks a booking was made under have expired and the cleanup has
\* removed them; the booking, with its seats, is still pending
C34_Witness ==
    /\ now > LockTTL
    /\ SweepDone
    /\ \E b \in bookings :
          /\ b.status = "pending"
          /\ SeatsOfBooking(b.id) # {}
          /\ NoLocksOf(seat_locks, b.user_id)
====
